---- MODULE Spec2Model ----
(***************************************************************************)
(* Model of packages/compiler/src/noir.rs: the generator gen_noir_fn /     *)
(* to_noir_fn that turns a DFA into Noir source text, and the program that *)
(* text describes (make_lookup_table and regex_match).                     *)
(*                                                                         *)
(* The emitted text is modelled by the values the generator formats into   *)
(* it (table size, the table assignments in order, the anchor loop, the    *)
(* asserted accept id); the emitted program is then run on those values.   *)
(***************************************************************************)
EXTENDS Integers, Sequences, FiniteSets, TLC

VARIABLES regex_and_dfa, gen_substrs, pc, panic, noir_fn, file, table, input, i, s,
          substring, walk, idxs, result

vars == <<regex_and_dfa, gen_substrs, pc, panic, noir_fn, file, table, input, i, s,
          substring, walk, idxs, result>>

----------------------------------------------------------------------------
(* Bounds of the model *)

\* number of states of the automata given to the generator: 0..MaxStates
MaxStates == 3
\* total number of (state, byte) -> destination edges of an automaton
MaxEdges == 2
\* length N of the inputs given to regex_match: 0..MaxLen
MaxLen == 3
\* number of states of the automata that carry substring metadata: 0..SubMaxStates
SubMaxStates == 2

\* byte values that label transitions: the sentinel 255 and one real byte
TranBytes == {97, 255}
\* byte values of the inputs: one mapped byte and one no automaton maps
InputBytes == {97, 98}

----------------------------------------------------------------------------
(* Program constants *)

BYTE_SIZE == 256
\* the reserved byte of the pre-step, `255 as Field` in the emitted driver
SENTINEL == 255

----------------------------------------------------------------------------
(* Helpers *)

RECURSIVE SortedSeq(_)
\* iteration order of a BTreeSet / of the keys of a BTreeMap: ascending
SortedSeq(S) ==
    IF S = {} THEN <<>>
    ELSE LET m == CHOOSE x \in S : \A y \in S : x <= y
         IN <<m>> \o SortedSeq(S \ {m})

RECURSIVE Flatten(_)
Flatten(ss) == IF ss = <<>> THEN <<>> ELSE Head(ss) \o Flatten(Tail(ss))

States(rad) == rad.dfa.states

LastState(rad) == States(rad)[Len(States(rad))]

----------------------------------------------------------------------------
(* to_noir_fn: the generator *)

\* the panic of the accept_state_id block, "" when it passes
last_state_panic(rad) ==
    IF Len(States(rad)) = 0 THEN "no last state"
    ELSE IF LastState(rad).state_type # "accept" THEN "last state is accept, right??"
    ELSE ""

accept_state_id(rad) == LastState(rad).state_id

\* state_panic without the assertion on non-accept states
state_panic_lenient(state) ==
    IF state.state_type = "accept" /\ Cardinality(DOMAIN state.transitions) # 0
    THEN "accept state has transitions" ELSE ""

\* the assertion the loop body makes on one state, "" when it passes
state_panic(state) ==
    IF state.state_type = "accept"
    THEN IF Cardinality(DOMAIN state.transitions) # 0
         THEN "accept state has transitions" ELSE ""
    ELSE IF ~(Cardinality(DOMAIN state.transitions) > 0)
         THEN "no transitions" ELSE ""

RECURSIVE loop_panic_from(_, _)
\* the first failing assertion of `for state in states.iter()`, from index k on
loop_panic_from(rad, k) ==
    IF k > Len(States(rad)) THEN ""
    ELSE IF state_panic(States(rad)[k]) # "" THEN state_panic(States(rad)[k])
    ELSE loop_panic_from(rad, k + 1)

loop_panic(rad) == loop_panic_from(rad, 1)

RECURSIVE highest_state_from(_, _, _)
highest_state_from(rad, k, acc) ==
    IF k > Len(States(rad)) THEN acc
    ELSE highest_state_from(rad, k + 1,
            IF States(rad)[k].state_id > acc THEN States(rad)[k].state_id ELSE acc)

highest_state(rad) == highest_state_from(rad, 1, 0)

\* state_rows pushing (next, char, curr) instead of (curr, char, next)
state_rows_swapped(state) ==
    IF state.state_type = "accept" THEN <<>>
    ELSE Flatten([d \in 1..Cardinality(DOMAIN state.transitions) |->
            LET tran_next_state_id == SortedSeq(DOMAIN state.transitions)[d]
                tran == SortedSeq(state.transitions[tran_next_state_id])
            IN [c \in 1..Len(tran) |-> <<tran_next_state_id, tran[c], state.state_id>>]])

\* the rows one non-accept state pushes: keys of the map ascending, then the
\* bytes of each set ascending
state_rows(state) ==
    IF state.state_type = "accept" THEN <<>>
    ELSE Flatten([d \in 1..Cardinality(DOMAIN state.transitions) |->
            LET tran_next_state_id == SortedSeq(DOMAIN state.transitions)[d]
                tran == SortedSeq(state.transitions[tran_next_state_id])
            IN [c \in 1..Len(tran) |-> <<state.state_id, tran[c], tran_next_state_id>>]])

\* rows: (curr_state, char_code, next_state) in push order
rows(rad) == Flatten([k \in 1..Len(States(rad)) |-> state_rows(States(rad)[k])])

table_size(rad) == BYTE_SIZE * Len(States(rad))

\* invalid_state two beyond the highest id
invalid_state_off(rad) == highest_state(rad) + 2

invalid_state(rad) == highest_state(rad) + 1

\* end_anchor_logic leaving the accept row at the default without end anchor
end_anchor_logic_unset(rad) ==
    IF rad.has_end_anchor
    THEN [row |-> accept_state_id(rad), value |-> invalid_state(rad)]
    ELSE [row |-> accept_state_id(rad), value |-> 0]

\* the emitted loop `for i in 0..256 { table[row * 256 + i] = value; }`
end_anchor_logic(rad) ==
    IF rad.has_end_anchor
    THEN [row |-> accept_state_id(rad), value |-> invalid_state(rad)]
    ELSE [row |-> accept_state_id(rad), value |-> accept_state_id(rad)]

\* the panic message of to_noir_fn, "" when it returns
to_noir_fn_panic(rad) ==
    IF last_state_panic(rad) # "" THEN last_state_panic(rad) ELSE loop_panic(rad)

\* substr_state taking the source of the first pair instead of its destination
substr_state_from(rad) ==
    IF Len(rad.substrings.substring_ranges) = 0 THEN 0
    ELSE IF rad.substrings.substring_ranges[1] = {} THEN 0
    ELSE (CHOOSE p \in rad.substrings.substring_ranges[1] : TRUE)[1]

\* the second part of the first edge of substring_ranges[0], 0 when there is none
\* (the model gives a set at most one pair, so its first element is that pair)
substr_state(rad) ==
    IF Len(rad.substrings.substring_ranges) = 0 THEN 0
    ELSE IF rad.substrings.substring_ranges[1] = {} THEN 0
    ELSE (CHOOSE p \in rad.substrings.substring_ranges[1] : TRUE)[2]

\* the text to_noir_fn returns, as the values formatted into it; gen selects the
\* driver with the substring buffer
to_noir_fn(rad, gen) ==
    [ kind |-> "text",
      table_size |-> table_size(rad),
      lookup_table_body |-> rows(rad),
      end_anchor_logic |-> end_anchor_logic(rad),
      accept_state_id |-> accept_state_id(rad),
      gen_substrs |-> gen,
      substr_state |-> substr_state(rad) ]

NoText == [kind |-> "none"]

----------------------------------------------------------------------------
(* The emitted program *)

RECURSIVE apply_rows(_, _)
\* the assignments `table[curr * 256 + char] = next;` of the body, in order
apply_rows(t, body) ==
    IF body = <<>> THEN t
    ELSE apply_rows([t EXCEPT ![Head(body)[1] * BYTE_SIZE + Head(body)[2]] = Head(body)[3]],
                    Tail(body))

\* every index the table routine assigns lies inside `[0; table_size]`
table_writes_in_bounds(text) ==
    /\ \A r \in 1..Len(text.lookup_table_body) :
          text.lookup_table_body[r][1] * BYTE_SIZE + text.lookup_table_body[r][2]
              < text.table_size
    /\ text.end_anchor_logic.row * BYTE_SIZE + (BYTE_SIZE - 1) < text.table_size

\* comptime fn make_lookup_table() -> [Field; table_size]
make_lookup_table(text) ==
    LET zero == [k \in 0..(text.table_size - 1) |-> 0]
        filled == apply_rows(zero, text.lookup_table_body)
    IN [k \in 0..(text.table_size - 1) |->
           IF /\ k >= text.end_anchor_logic.row * BYTE_SIZE
              /\ k < text.end_anchor_logic.row * BYTE_SIZE + BYTE_SIZE
           THEN text.end_anchor_logic.value
           ELSE filled[k]]

----------------------------------------------------------------------------
(* Inputs of the model: the automata and the input arrays *)

NoDst == -1

\* one state's transitions as a partial map byte -> destination (deterministic)
EdgeMaps(n) == [TranBytes -> (0..(n - 1)) \cup {NoDst}]

EdgeCount(f) == Cardinality({c \in TranBytes : f[c] # NoDst})

RECURSIVE TotalEdges(_)
TotalEdges(fs) == IF fs = <<>> THEN 0 ELSE EdgeCount(Head(fs)) + TotalEdges(Tail(fs))

\* the map destination id -> set of bytes the state owns
TransitionsOf(f) ==
    [d \in {f[c] : c \in TranBytes} \ {NoDst} |-> {c \in TranBytes : f[c] = d}]

Inputs == UNION {[1..n -> InputBytes] : n \in 0..MaxLen}

\* substring_ranges: no set, an empty first set, or a first set of one edge
SubstringRanges(n) ==
    {<<>>, <<{}>>} \cup {<<{<<a, b>>}>> : a \in 0..(n - 1), b \in 0..(n - 1)}

----------------------------------------------------------------------------
(* State machine *)

Init ==
    /\ \E n \in 0..MaxStates :
       \E fs \in {f \in [1..n -> EdgeMaps(n)] : TotalEdges(f) <= MaxEdges} :
       \E ty \in [1..n -> {"normal", "accept"}] :
       \E anchor \in BOOLEAN :
          /\ regex_and_dfa =
               [ dfa |-> [states |-> [k \in 1..n |->
                             [ state_id |-> k - 1,
                               state_type |-> ty[k],
                               transitions |-> TransitionsOf(fs[k]) ]]],
                 has_end_anchor |-> anchor,
                 substrings |-> [substring_ranges |-> <<>>] ]
    /\ gen_substrs = FALSE
    /\ pc = "start"
    /\ panic = ""
    /\ noir_fn = NoText
    /\ file = "absent"
    /\ table = <<>>
    /\ input = <<>>
    /\ i = 0
    /\ s = 0
    /\ substring = <<>>
    /\ walk = <<>>
    /\ idxs = <<>>
    /\ result = ""

\* gen_noir_fn creating the file before it calls to_noir_fn
gen_noir_fn_call_create_first ==
    /\ pc = "start"
    /\ file' = "empty"
    /\ IF to_noir_fn_panic(regex_and_dfa) # ""
       THEN /\ pc' = "panicked"
            /\ panic' = to_noir_fn_panic(regex_and_dfa)
            /\ UNCHANGED noir_fn
       ELSE /\ pc' = "create"
            /\ noir_fn' = to_noir_fn(regex_and_dfa, gen_substrs)
            /\ UNCHANGED panic
    /\ UNCHANGED <<regex_and_dfa, gen_substrs, table, input, i, s, walk, idxs, result, substring>>

\* gen_noir_fn, line 10: the call of to_noir_fn, which panics or returns the text
gen_noir_fn_call ==
    /\ pc = "start"
    /\ IF to_noir_fn_panic(regex_and_dfa) # ""
       THEN /\ pc' = "panicked"
            /\ panic' = to_noir_fn_panic(regex_and_dfa)
            /\ UNCHANGED noir_fn
       ELSE /\ pc' = "create"
            /\ noir_fn' = to_noir_fn(regex_and_dfa, gen_substrs)
            /\ UNCHANGED panic
    /\ UNCHANGED <<regex_and_dfa, gen_substrs, file, table, input, i, s, walk, idxs, result, substring>>

\* gen_noir_fn, line 11: File::create(path)?
gen_noir_fn_create ==
    /\ pc = "create"
    /\ \/ /\ file' = "empty"
          /\ pc' = "write"
       \/ /\ pc' = "io_error"
          /\ UNCHANGED file
    /\ UNCHANGED <<regex_and_dfa, gen_substrs, panic, noir_fn, table, input, i, s, walk, idxs, result, substring>>

\* gen_noir_fn, line 12: file.write_all(noir_fn.as_bytes())?
gen_noir_fn_write_all ==
    /\ pc = "write"
    /\ \/ /\ file' = "complete"
          /\ pc' = "flush"
       \/ /\ file' \in {"empty", "partial"}
          /\ pc' = "io_error"
    /\ UNCHANGED <<regex_and_dfa, gen_substrs, panic, noir_fn, table, input, i, s, walk, idxs, result, substring>>

\* gen_noir_fn, lines 13-14: file.flush()?; Ok(())
gen_noir_fn_flush ==
    /\ pc = "flush"
    /\ \/ pc' = "returned"
       \/ pc' = "io_error"
    /\ UNCHANGED <<regex_and_dfa, gen_substrs, panic, noir_fn, file, table, input, i, s, walk, idxs, result, substring>>

\* the emitted `global table = make_lookup_table();`
global_table ==
    /\ pc = "returned"
    /\ file = "complete"
    /\ table_writes_in_bounds(noir_fn)
    /\ table' = make_lookup_table(noir_fn)
    /\ pc' = "compiled"
    /\ UNCHANGED <<regex_and_dfa, gen_substrs, panic, noir_fn, file, input, i, s, walk, idxs, result, substring>>

\* substring.push(temp) on a BoundedVec of capacity cap: the vector after the push,
\* or the failed assertion of a push beyond the capacity
push(vec, cap, temp) ==
    IF Len(vec) < cap
    THEN [ok |-> TRUE, vec |-> Append(vec, temp)]
    ELSE [ok |-> FALSE, vec |-> vec]

\* regex_match that also pushes the sentinel when the pre-step ends in substr_state
regex_match_call_push ==
    /\ pc = "compiled"
    /\ \E inp \in Inputs :
          /\ input' = inp
          /\ i' = 0
          /\ s' = table[0 * 256 + SENTINEL]
          /\ walk' = <<table[0 * 256 + SENTINEL]>>
          /\ idxs' = <<0 * 256 + SENTINEL>>
          /\ IF noir_fn.gen_substrs /\ table[0 * 256 + SENTINEL] = noir_fn.substr_state
             THEN IF push(<<>>, Len(inp), SENTINEL).ok
                  THEN /\ substring' = push(<<>>, Len(inp), SENTINEL).vec
                       /\ pc' = "loop"
                       /\ UNCHANGED result
                  ELSE /\ substring' = <<>>
                       /\ pc' = "done"
                       /\ result' = "push out of bounds"
             ELSE /\ substring' = <<>>
                  /\ pc' = "loop"
                  /\ UNCHANGED result
    /\ UNCHANGED <<regex_and_dfa, gen_substrs, panic, noir_fn, file, table>>

\* regex_match(input): `let mut s = 0;`, the empty buffer of the substring variant,
\* and the pre-step `s = table[s * 256 + 255]`
regex_match_call ==
    /\ pc = "compiled"
    /\ \E inp \in Inputs :
          /\ input' = inp
          /\ i' = 0
          /\ s' = table[0 * 256 + SENTINEL]
          /\ walk' = <<table[0 * 256 + SENTINEL]>>
          /\ idxs' = <<0 * 256 + SENTINEL>>
    /\ substring' = <<>>
    /\ pc' = "loop"
    /\ UNCHANGED <<regex_and_dfa, gen_substrs, panic, noir_fn, file, table, result>>

\* one iteration of `for i in 0..input.len()`: s = table[s * 256 + input[i]];
\* an index outside the array fails the execution
regex_match_step ==
    /\ pc = "loop"
    /\ i < Len(input)
    /\ LET idx == s * BYTE_SIZE + input[i + 1]
       IN /\ idxs' = Append(idxs, idx)
          /\ IF idx \in DOMAIN table
             THEN /\ s' = table[idx]
                  /\ walk' = Append(walk, table[idx])
                  /\ i' = i + 1
                  /\ IF noir_fn.gen_substrs /\ table[idx] = noir_fn.substr_state
                     THEN IF push(substring, Len(input), input[i + 1]).ok
                          THEN /\ substring' = push(substring, Len(input), input[i + 1]).vec
                               /\ pc' = "loop"
                               /\ UNCHANGED result
                          ELSE /\ pc' = "done"
                               /\ result' = "push out of bounds"
                               /\ UNCHANGED substring
                     ELSE /\ pc' = "loop"
                          /\ UNCHANGED <<substring, result>>
             ELSE /\ pc' = "done"
                  /\ result' = "index out of bounds"
                  /\ UNCHANGED <<s, walk, i, substring>>
    /\ UNCHANGED <<regex_and_dfa, gen_substrs, panic, noir_fn, file, table, input>>

\* the acceptance check made before the loop has consumed every byte
regex_match_assert_early ==
    /\ pc = "loop"
    /\ i <= Len(input)
    /\ result' = IF s = noir_fn.accept_state_id THEN "match" ELSE "no match"
    /\ pc' = "done"
    /\ UNCHANGED <<regex_and_dfa, gen_substrs, panic, noir_fn, file, table, input, i, s, walk, idxs, substring>>

\* assert_eq(s, accept_state_id, f"no match: {s}"); the substring variant then
\* returns the buffer
regex_match_assert ==
    /\ pc = "loop"
    /\ i = Len(input)
    /\ result' = IF s = noir_fn.accept_state_id THEN "match" ELSE "no match"
    /\ pc' = "done"
    /\ UNCHANGED <<regex_and_dfa, gen_substrs, panic, noir_fn, file, table, input, i, s, walk, idxs, substring>>

Next ==
    \/ gen_noir_fn_call
    \/ gen_noir_fn_create
    \/ gen_noir_fn_write_all
    \/ gen_noir_fn_flush
    \/ global_table
    \/ regex_match_call
    \/ regex_match_step
    \/ regex_match_assert

Spec == Init /\ [][Next]_vars

\* the automata with substring metadata, generated with either value of gen_substrs
InitSub ==
    /\ \E n \in 0..SubMaxStates :
       \E fs \in {f \in [1..n -> EdgeMaps(n)] : TotalEdges(f) <= MaxEdges} :
       \E ty \in [1..n -> {"normal", "accept"}] :
       \E anchor \in BOOLEAN :
       \E ranges \in SubstringRanges(n) :
          /\ regex_and_dfa =
               [ dfa |-> [states |-> [k \in 1..n |->
                             [ state_id |-> k - 1,
                               state_type |-> ty[k],
                               transitions |-> TransitionsOf(fs[k]) ]]],
                 has_end_anchor |-> anchor,
                 substrings |-> [substring_ranges |-> ranges] ]
    /\ gen_substrs \in BOOLEAN
    /\ pc = "start"
    /\ panic = ""
    /\ noir_fn = NoText
    /\ file = "absent"
    /\ table = <<>>
    /\ input = <<>>
    /\ i = 0
    /\ s = 0
    /\ substring = <<>>
    /\ walk = <<>>
    /\ idxs = <<>>
    /\ result = ""

SpecSub == InitSub /\ [][Next]_vars

----------------------------------------------------------------------------
(* Vocabulary of the properties *)

StateIds == {regex_and_dfa.dfa.states[k].state_id : k \in 1..Len(regex_and_dfa.dfa.states)}

AcceptIds ==
    {regex_and_dfa.dfa.states[k].state_id :
        k \in {j \in 1..Len(regex_and_dfa.dfa.states) :
                 regex_and_dfa.dfa.states[j].state_type = "accept"}}

NumStates == Len(regex_and_dfa.dfa.states)

\* the state record with id q
StateOf(q) ==
    regex_and_dfa.dfa.states[CHOOSE k \in 1..NumStates : regex_and_dfa.dfa.states[k].state_id = q]

\* the automaton's transition function: the destination of byte b from state q, or NoDst
Delta(q, b) ==
    IF \E d \in DOMAIN StateOf(q).transitions : b \in StateOf(q).transitions[d]
    THEN CHOOSE d \in DOMAIN StateOf(q).transitions : b \in StateOf(q).transitions[d]
    ELSE NoDst

RECURSIVE DFARun(_, _)
\* the automaton run as a DFA from state q on the bytes left: a missing transition is
\* a non-match; at acceptance the run matches when no byte is left, and with bytes
\* left only when there is no end anchor
DFARun(q, bytes) ==
    IF q \in AcceptIds
    THEN bytes = <<>> \/ ~regex_and_dfa.has_end_anchor
    ELSE IF bytes = <<>> THEN FALSE
    ELSE IF Delta(q, Head(bytes)) = NoDst THEN FALSE
    ELSE DFARun(Delta(q, Head(bytes)), Tail(bytes))

DFAMatch(inp) == DFARun(0, <<SENTINEL>> \o inp)

----------------------------------------------------------------------------
(* Properties *)

\* C1: regex_match accepts an input if and only if the automaton, run as a DFA from
\* state 0 on the sentinel byte followed by the input, matches it under the declared
\* anchoring (a byte with no transition is a non-match).
C1_MatcherEqualsDFA ==
    pc = "done" => ((result = "match") <=> DFAMatch(input))

\* C2: with has_end_anchor, every entry of the row of every accept state is the
\* invalid sentinel highest_state_id + 1 and never the id of a state.
C2_AllAcceptRowsInvalid ==
    (pc = "compiled" /\ regex_and_dfa.has_end_anchor) =>
        \A a \in AcceptIds : \A b \in 0..255 :
            /\ table[a * 256 + b] = highest_state(regex_and_dfa) + 1
            /\ table[a * 256 + b] \notin StateIds

\* C3: with has_end_anchor, once the walk is in an accept state and a further byte
\* is consumed, the state is never an accept state again and the match is rejected.
C3_NoReacceptance ==
    regex_and_dfa.has_end_anchor =>
        /\ \A j \in 1..Len(walk) : \A k \in 1..Len(walk) :
              (j < k /\ walk[j] \in AcceptIds) => walk[k] \notin AcceptIds
        /\ (pc = "done" /\ \E j \in 1..(Len(walk) - 1) : walk[j] \in AcceptIds)
              => result # "match"

\* C4: every table lookup of the driver uses an index strictly below 256 * |states|.
C4_LookupsInBounds ==
    \A k \in 1..Len(idxs) : idxs[k] >= 0 /\ idxs[k] < 256 * NumStates

\* C5: the acceptance check succeeds if and only if the final state is the id of one
\* of the accept states of the automaton.
C5_AcceptDisjunction ==
    (pc = "done" /\ result \in {"match", "no match"}) =>
        ((result = "match") <=> s \in AcceptIds)

\* C6 as stated: without has_end_anchor every entry of every accept state's row stays
\* at the default 0, so a byte consumed in an accept state moves the walk to state 0.
C6_AcceptRowsDefault ==
    ~regex_and_dfa.has_end_anchor =>
        /\ pc = "compiled" =>
              \A a \in AcceptIds : \A b \in 0..255 : table[a * 256 + b] = 0
        /\ \A k \in 1..(Len(walk) - 1) : walk[k] \in AcceptIds => walk[k + 1] = 0

\* C6 amended: without has_end_anchor the anchor step writes the id of the last state
\* (the accept state the driver checks) into every entry of that state's row, so a
\* byte consumed there keeps the walk there; the row of any other accept state stays 0.
C6_AcceptRowSticky ==
    ~regex_and_dfa.has_end_anchor =>
        /\ pc = "compiled" =>
              /\ \A b \in 0..255 :
                    table[LastState(regex_and_dfa).state_id * 256 + b]
                        = LastState(regex_and_dfa).state_id
              /\ \A a \in AcceptIds \ {LastState(regex_and_dfa).state_id} :
                    \A b \in 0..255 : table[a * 256 + b] = 0
        /\ \A k \in 1..(Len(walk) - 1) :
              walk[k] = noir_fn.accept_state_id => walk[k + 1] = noir_fn.accept_state_id

\* a byte was consumed in the accept state of an automaton without end anchor
C6_Witness ==
    /\ ~regex_and_dfa.has_end_anchor
    /\ Cardinality(AcceptIds) >= 2
    /\ \E k \in 1..(Len(walk) - 1) : walk[k] = noir_fn.accept_state_id /\ walk[k] # 0

\* C7: the table has exactly 256 * |states| entries and every entry is a state id in
\* [0, |states|].
C7_TableSizeAndRange ==
    pc = "compiled" =>
        /\ DOMAIN table = 0..(256 * NumStates - 1)
        /\ \A k \in DOMAIN table : table[k] \in 0..NumStates

\* a table was built with end anchor and holds the sentinel |states|
C7_Witness ==
    /\ pc = "compiled"
    /\ regex_and_dfa.has_end_anchor
    /\ NumStates >= 2
    /\ \E k \in DOMAIN table : table[k] = NumStates

\* C8: for a non-accept state src and a byte b, table[src*256+b] is the destination of
\* the transition of src whose byte set contains b, and 0 when there is none.
C8_RowsOfNormalStates ==
    pc = "compiled" =>
        \A q \in StateIds \ AcceptIds : \A b \in 0..255 :
            table[q * 256 + b] = IF Delta(q, b) # NoDst THEN Delta(q, b) ELSE 0

\* a table built from a state with a transition to a state other than 0
C8_Witness ==
    /\ pc = "compiled"
    /\ \E q \in StateIds \ AcceptIds : \E b \in 0..255 :
          Delta(q, b) \notin {NoDst, 0} /\ table[q * 256 + b] = Delta(q, b)
    /\ \E q \in StateIds \ AcceptIds : \E b \in 0..255 :
          Delta(q, b) = NoDst /\ table[q * 256 + b] = 0

\* the automaton is malformed: no accept state, a non-accept state without
\* transitions, or an accept state with transitions
Malformed ==
    \/ AcceptIds = {}
    \/ \E k \in 1..NumStates :
          /\ regex_and_dfa.dfa.states[k].state_type # "accept"
          /\ DOMAIN regex_and_dfa.dfa.states[k].transitions = {}
    \/ \E k \in 1..NumStates :
          /\ regex_and_dfa.dfa.states[k].state_type = "accept"
          /\ DOMAIN regex_and_dfa.dfa.states[k].transitions # {}

\* C9: to_noir_fn aborts, returning no text, whenever the automaton is malformed,
\* whichever position the offending state has.
C9_MalformedAborts ==
    (pc # "start" /\ Malformed) => (pc = "panicked" /\ panic # "" /\ noir_fn = NoText)

\* the call aborted on an automaton whose last state is a transition-free accept
\* state and whose first state is the offending one
C9_Witness ==
    /\ pc = "panicked"
    /\ NumStates >= 3
    /\ LastState(regex_and_dfa).state_type = "accept"
    /\ DOMAIN LastState(regex_and_dfa).transitions = {}
    /\ state_panic(regex_and_dfa.dfa.states[1]) # ""
    /\ \A k \in 2..NumStates : state_panic(regex_and_dfa.dfa.states[k]) = ""

\* C10: when generation aborts on a malformed automaton, no file, empty file or
\* partial file results: the output file is never created.
C10_NoOutputOnAbort ==
    (pc = "panicked" \/ Malformed) => file = "absent"

\* generation aborted
C10_Witness ==
    pc = "panicked" /\ Malformed /\ file = "absent"

\* substring metadata supplies a boundary: substring_ranges has a first set and that
\* set has an edge
HasBoundary ==
    /\ Len(regex_and_dfa.substrings.substring_ranges) >= 1
    /\ regex_and_dfa.substrings.substring_ranges[1] # {}

\* the destination of the first boundary pair
BoundaryDst == (CHOOSE p \in regex_and_dfa.substrings.substring_ranges[1] : TRUE)[2]

RECURSIVE BytesEndingIn(_, _)
\* the bytes input[1..k], in input order, whose step ended in state q
BytesEndingIn(q, k) ==
    IF k = 0 THEN <<>>
    ELSE IF walk[k + 1] = q
         THEN Append(BytesEndingIn(q, k - 1), input[k])
         ELSE BytesEndingIn(q, k - 1)

\* C11: in the substring variant, with s the destination of the first boundary pair,
\* the byte just consumed is appended if and only if the state after the step is s:
\* the buffer holds, in input order, exactly the bytes whose step ended in s, and the
\* buffer returned for an accepted input is empty when the walk never reaches s.
C11_BufferIsCapture ==
    (gen_substrs /\ HasBoundary /\ pc \in {"loop", "done"}) =>
        /\ substring = BytesEndingIn(BoundaryDst, Len(walk) - 1)
        /\ result = "match" =>
              /\ substring = BytesEndingIn(BoundaryDst, Len(input))
              /\ (\A k \in 2..Len(walk) : walk[k] # BoundaryDst) => substring = <<>>

\* an accepted input of which some bytes, and not all, were captured
C11_Witness ==
    /\ gen_substrs
    /\ HasBoundary
    /\ result = "match"
    /\ substring # <<>>
    /\ Len(substring) < Len(input)
    /\ BoundaryDst # 0

\* C12: in the substring variant the buffer never holds more than N bytes: at most
\* one byte per consumed input byte, none during the pre-step, and no push fails.
C12_BufferWithinCapacity ==
    /\ Len(substring) <= Len(input)
    /\ Len(substring) <= i
    /\ result # "push out of bounds"

\* an input of which every byte was captured
C12_Witness ==
    /\ gen_substrs
    /\ HasBoundary
    /\ pc = "done"
    /\ Len(input) >= 2
    /\ Len(substring) = Len(input)

\* C14: in both variants the state starts at 0, one lookup with the sentinel 255 is
\* made before any input byte, then input[0], input[1], ... are consumed in index
\* order, each once, each step replacing the state by table[state*256+byte], and the
\* acceptance check is made once, after the last byte.
C14_DriverOrder ==
    /\ pc \notin {"loop", "done"} => (idxs = <<>> /\ walk = <<>> /\ result = "")
    /\ pc \in {"loop", "done"} =>
          /\ idxs[1] = 0 * 256 + 255
          /\ walk[1] = table[0 * 256 + 255]
          /\ \A k \in 2..Len(idxs) : idxs[k] = walk[k - 1] * 256 + input[k - 1]
          /\ \A k \in 2..Len(walk) : walk[k] = table[idxs[k]]
          /\ Len(walk) = i + 1
          /\ s = walk[Len(walk)]
          /\ i <= Len(input)
          /\ Len(idxs) \in {Len(walk), Len(walk) + 1}
    /\ result # "" => pc = "done"
    /\ result \in {"match", "no match"} =>
          /\ i = Len(input)
          /\ Len(idxs) = Len(input) + 1
          /\ (result = "match") <=> (s = noir_fn.accept_state_id)

\* the substring variant accepted an input of two bytes or more
C14_Witness ==
    /\ gen_substrs
    /\ result = "match"
    /\ Len(input) >= 2
    /\ Len(idxs) = Len(input) + 1

\* C15: generation succeeds for every well-formed automaton (an accept state exists,
\* every non-accept state has a transition, no accept state has one), whatever the
\* position of the accept states in the sequence.
C15_WellFormedGenerates ==
    (pc # "start" /\ ~Malformed) => (pc # "panicked" /\ noir_fn.kind = "text")

\* C16: with gen_substrs and no substring boundary supplied, the buffer returned for
\* every accepted input is empty.
C16_NoBoundaryNoCapture ==
    (gen_substrs /\ ~HasBoundary /\ result = "match") => substring = <<>>

====
